---- MODULE Spec2Model ----
(***************************************************************************)
(* The watcher/event aggregation subsystem of aretw0/introspection:        *)
(* AggregateWatchers and AggregateEvents (fan-in of N producer streams     *)
(* into one bounded output channel), together with the reference producers *)
(* that feed them (MockTypedWatcher, simpleWatcher, MockEventSource,       *)
(* mockEventSource), WatcherAdapter.Snapshots (one typed watcher converted *)
(* to a snapshot stream), the cancellation token and the consumer.         *)
(*                                                                         *)
(* Every goroutine is a process with a program counter; every channel is a *)
(* sequence with a capacity and a closed flag.  A Go select with several   *)
(* ready cases is a nondeterministic choice between the enabled actions.   *)
(***************************************************************************)
EXTENDS Integers, Sequences, FiniteSets, TLC

\* Longest producer list passed to the aggregator.
MaxProducers == 2

\* Number of SendChange/SendEvent calls the callers make over all producers.
MaxEmit == 2

\* Number of elements the consumer takes from the output before it stops reading.
MaxRead == 2

\* Capacity of the aggregated output channel: make(chan StateSnapshot, 64).
OutCap == 64

\* Capacity of the channel of WatcherAdapter.Snapshots: make(chan StateSnapshot, 10).
AdapterCap == 10

VARIABLES
    mode,       \* "watchers": AggregateWatchers was called; "events": AggregateEvents;
                \* "adapter": NewWatcherAdapter(label, w).Snapshots(ctx)
                \* "diagram": a Mermaid renderer is called, no aggregator runs
    watchers,   \* the variadic argument list: one producer kind per position
    ctxDone,    \* the shared context has been cancelled
    next,       \* position of the range loop of the aggregator
    aggPc,      \* "loop" | "returned": the aggregator call itself
                \* (adapter: "loop" | "constructed" | "returned")
    wg,         \* sync.WaitGroup counter
    cpc,        \* closer goroutine: "none" | "waiting" | "done"
    watchCalls, \* per producer: number of Watch(ctx) / Events(ctx) invocations
    src,        \* per producer: its internal channel (changeChan / ch / eventChan)
    ppc,        \* per producer: forwarding goroutine "none" | "idle" | "holding" | "done"
    pheld,      \* per producer: the element its goroutine holds while "holding"
    wch,        \* per producer: buffer of the channel returned by Watch / Events
    wchClosed,  \* per producer: that channel has been closed
    wpc,        \* per worker: "none" | "start" | "recv" | "send" | "exit"
                \* (the adapter's forwarding goroutine is worker 1, from "astart")
    held,       \* per worker: the element it is trying to send to out
    label,      \* per worker: the componentType argument of its goroutine
    out,        \* buffer of the output channel
    closeCount, \* number of close(out) executed
    consumer,   \* "reading" | "closed" (saw the close)
    nread,      \* number of elements the consumer has received
    emitted,    \* per producer: number of SendChange / SendEvent calls made
    emitLog,    \* per producer: the elements it put on its Watch / Events stream
    sendLog,    \* every element sent on out, in order, tagged with its worker
    dropped,    \* per worker: elements abandoned in the send select
    panicked,   \* a goroutine sent on, or closed, the closed output channel
    cancelCount,\* elements the consumer had received when the token fired
    typeCalls,  \* per producer: number of ComponentType() invocations
    diagram     \* the Mermaid renderers: input state, position, rendered lines

vars == <<mode, watchers, ctxDone, next, aggPc, wg, cpc, watchCalls, src, ppc,
          pheld, wch, wchClosed, wpc, held, label, out, closeCount, consumer,
          nread, emitted, emitLog, sendLog, dropped, panicked, cancelCount,
          typeCalls, diagram>>

\* No renderer is involved in a run of the aggregators or of the adapter.
NoDiagram == [pc |-> "none"]

----------------------------------------------------------------------------
(* Producers *)

\* Values that can be passed to AggregateWatchers(ctx, watchers ...interface{}).
\*   nil        a nil interface value
\*   plain      struct{}{} or time.Time{}: neither ComponentType nor Watch
\*   watchOnly  has Watch(ctx) but no ComponentType()
\*   typeOnly   has ComponentType() but no Watch method
\*   emptyType  has both, ComponentType() returns ""
\*   mock       MockTypedWatcher
\*   simple     simpleWatcher (also the example Worker / SignalHandler)
\*   neverClose has both, but its Watch stream ignores the context
\*   finite     has both, and also closes its stream by itself
WatcherKinds ==
    {"nil", "plain", "watchOnly", "typeOnly", "emptyType", "mock", "simple",
     "neverClose", "finite"}

\* Values that can be passed to AggregateEvents(ctx, sources ...EventSource):
\* MockEventSource, the example mockEventSource, and a source that also
\* closes its stream by itself when it has nothing more to report.
EventKinds == {"mockEvents", "exampleEvents", "finiteEvents"}

\* TypedWatcher values that can be wrapped by NewWatcherAdapter; the interface
\* asks for State and Watch only, so the wrapped watcher need not report a
\* component type.  "finite" also closes its stream by itself.
AdapterKinds == {"mock", "simple", "watchOnly", "neverClose", "finite"}

\* Labels given to NewWatcherAdapter.
AdapterLabels == {"test-component", "service"}

\* The value implements the Component interface.
HasComponentType(kind) ==
    kind \in {"typeOnly", "emptyType", "mock", "simple", "neverClose", "finite"}

\* What the value's ComponentType() returns.
ComponentTypeOf(kind) ==
    CASE kind = "mock" -> "worker"
      [] kind = "simple" -> "service"
      [] kind = "neverClose" -> "stuck"
      [] kind = "finite" -> "batch"
      [] kind = "typeOnly" -> "label"
      [] OTHER -> ""

\* reflect.ValueOf(w).MethodByName("Watch").IsValid()
HasWatch(kind) ==
    kind \in {"watchOnly", "emptyType", "mock", "simple", "neverClose", "finite"}

\* The producer may close its stream before the context is cancelled.
ClosesByItself(kind) == kind \in {"finite", "finiteEvents"}

\* Mutant: no producer reacts to the cancellation.
ClosesOnCancelNever(kind) == FALSE

\* The stream is closed when the context is cancelled (the Watch/Events contract).
ClosesOnCancel(kind) == kind # "neverClose"

\* Capacity of the producer's internal channel.
SrcCap(kind) == IF kind \in {"mock", "mockEvents"} THEN 10 ELSE 1

\* Capacity of the channel returned by Watch / Events.
WatchCap(kind) == IF kind \in {"mock", "mockEvents"} THEN 10 ELSE 0

\* Mutant: a value that is not a Component gets a default label.
inferComponentTypeDefault(kind) ==
    IF kind = "nil" THEN ""
    ELSE IF HasComponentType(kind) THEN ComponentTypeOf(kind)
    ELSE "unknown"

\* Mutant: a value with a Watch method but no ComponentType gets a label.
inferComponentTypeFromWatch(kind) ==
    IF kind = "nil" THEN ""
    ELSE IF HasComponentType(kind) THEN ComponentTypeOf(kind)
    ELSE IF HasWatch(kind) THEN "watcher"
    ELSE ""

\* watcher == nil, then the Component type assertion.
inferComponentType(kind) ==
    IF kind = "nil" THEN ""
    ELSE IF HasComponentType(kind) THEN ComponentTypeOf(kind)
    ELSE ""

\* Calls of ComponentType() one run of inferComponentType makes: one, through
\* the Component assertion, on a non-nil value that has the method.
ComponentTypeQueries(kind) == IF kind # "nil" /\ HasComponentType(kind) THEN 1 ELSE 0

\* The producer survives both capability checks of AggregateWatchers.
Capable(kind) == inferComponentType(kind) # "" /\ HasWatch(kind)

Procs == DOMAIN watchers

ServiceIds == <<"service-1", "service-2", "service-3", "service-4">>

\* The (ComponentID, ComponentType) pairs callers put in a change of producer
\* i.  MockTypedWatcher takes the fields from the test, which leaves both
\* empty (TestWatcherAdapter_Snapshots); simpleWatcher fills them in
\* UpdateState from w.id; the events are MockComponent / mockEvent values.
ChangeInputs(i) ==
    CASE watchers[i] = "mock" -> {[ComponentID |-> "", ComponentType |-> ""]}
      [] watchers[i] = "mockEvents" ->
            {[ComponentID |-> "comp-1", ComponentType |-> "worker"]}
      [] OTHER -> {[ComponentID |-> ServiceIds[i], ComponentType |-> "service"]}

\* StateChange[S] built by the caller: the k-th change moves the state from
\* k-1 to k and carries the k-th clock reading.
StateChange(in, k) ==
    [ComponentID   |-> in.ComponentID,
     ComponentType |-> in.ComponentType,
     OldState      |-> k - 1,
     NewState      |-> k,
     Timestamp     |-> 100 + k]

\* ComponentEvent built by the caller.
ComponentEvent(in, k) ==
    [ComponentID   |-> in.ComponentID,
     ComponentType |-> in.ComponentType,
     Timestamp     |-> 100 + k,
     EventType     |-> "started"]

RECURSIVE SumUpTo(_, _)
SumUpTo(f, n) == IF n = 0 THEN 0 ELSE f[n] + SumUpTo(f, n - 1)

\* Calls the callers make in one run: a single unbuffered producer is also
\* driven far enough to fill the output channel.
EmitBudget ==
    IF Len(watchers) = 1 /\ watchers[1] \in {"simple", "exampleEvents"}
    THEN (IF mode = "adapter" THEN AdapterCap ELSE OutCap) + MaxEmit
    ELSE MaxEmit

\* MockTypedWatcher.SendChange / simpleWatcher.UpdateState /
\* MockEventSource.SendEvent: a blocking send on the internal channel.
SendChange(i) ==
    /\ HasWatch(watchers[i]) \/ mode = "events"
    /\ SumUpTo(emitted, Len(watchers)) < EmitBudget
    /\ Len(src[i]) < SrcCap(watchers[i])
    /\ \E in \in ChangeInputs(i) :
         LET k == emitted[i] + 1
             change == IF mode = "events" THEN ComponentEvent(in, k)
                       ELSE IF watchers[i] = "mock" /\ in.ComponentID = ""
                            THEN StateChange([in EXCEPT !.ComponentID = "test-id"], k)
                            ELSE StateChange(in, k)
         IN  src' = [src EXCEPT ![i] = Append(@, change)]
    /\ emitted' = [emitted EXCEPT ![i] = @ + 1]
    /\ UNCHANGED <<diagram, typeCalls, mode, watchers, ctxDone, next, aggPc, wg, cpc, watchCalls, ppc,
                   pheld, wch, wchClosed, wpc, held, label, out, closeCount,
                   consumer, nread, emitLog, sendLog, dropped, panicked, cancelCount>>

\* Mutant: the payload is taken from OldState.
MakeSnapshotOldState(componentType, val) ==
    [ComponentID   |-> val.ComponentID,
     ComponentType |-> componentType,
     Timestamp     |-> val.Timestamp,
     Payload       |-> val.OldState]

\* Mutant: the snapshot keeps the ComponentType field of the transition.
MakeSnapshotKeepsType(componentType, val) ==
    [ComponentID   |-> val.ComponentID,
     ComponentType |-> val.ComponentType,
     Timestamp     |-> val.Timestamp,
     Payload       |-> val.NewState]

\* The snapshot the AggregateWatchers worker builds from a received value.
MakeSnapshot(componentType, val) ==
    [ComponentID   |-> val.ComponentID,
     ComponentType |-> componentType,
     Timestamp     |-> val.Timestamp,
     Payload       |-> val.NewState]

\* Mutant: the AggregateEvents worker rewrites the event it forwards.
EnvelopeRetagged(i, val) ==
    IF mode = "watchers" THEN MakeSnapshot(label[i], val)
    ELSE IF mode = "events" THEN [val EXCEPT !.EventType = "forwarded"]
    ELSE val

\* What a worker will try to send for a value received from its producer.
Envelope(i, val) ==
    IF mode = "watchers" THEN MakeSnapshot(label[i], val) ELSE val

\* Forwarding goroutine of Watch / Events, outer select: case change := <-m.changeChan
ProducerTake(i) ==
    /\ ppc[i] = "idle"
    /\ src[i] # <<>>
    /\ pheld' = [pheld EXCEPT ![i] = <<Head(src[i])>>]
    /\ src' = [src EXCEPT ![i] = Tail(@)]
    /\ ppc' = [ppc EXCEPT ![i] = "holding"]
    /\ UNCHANGED <<diagram, typeCalls, mode, watchers, ctxDone, next, aggPc, wg, cpc, watchCalls, wch,
                   wchClosed, wpc, held, label, out, closeCount, consumer, nread,
                   emitted, emitLog, sendLog, dropped, panicked, cancelCount>>

\* Inner select: case ch <- change.  On a buffered channel the value is queued;
\* on an unbuffered one it is handed to the worker blocked in Recv.
ProducerForward(i) ==
    /\ ppc[i] = "holding"
    /\ IF WatchCap(watchers[i]) > 0
       THEN /\ Len(wch[i]) < WatchCap(watchers[i])
            /\ wch' = [wch EXCEPT ![i] = Append(@, pheld[i][1])]
            /\ UNCHANGED <<wpc, held>>
       ELSE /\ wpc[i] = "recv"
            /\ held' = [held EXCEPT ![i] = <<Envelope(i, pheld[i][1])>>]
            /\ wpc' = [wpc EXCEPT ![i] = "send"]
            /\ UNCHANGED wch
    /\ emitLog' = [emitLog EXCEPT ![i] = Append(@, pheld[i][1])]
    /\ pheld' = [pheld EXCEPT ![i] = <<>>]
    /\ ppc' = [ppc EXCEPT ![i] = "idle"]
    /\ UNCHANGED <<diagram, typeCalls, mode, watchers, ctxDone, next, aggPc, wg, cpc, watchCalls, src,
                   wchClosed, label, out, closeCount, consumer, nread, emitted,
                   sendLog, dropped, panicked, cancelCount>>

\* Mutant: only the outer select watches the context; a goroutine blocked
\* handing over a transition stays blocked.
ProducerCancelIdleOnly(i) ==
    /\ ppc[i] = "idle"
    /\ ctxDone
    /\ ClosesOnCancel(watchers[i])
    /\ ppc' = [ppc EXCEPT ![i] = "done"]
    /\ pheld' = [pheld EXCEPT ![i] = <<>>]
    /\ wchClosed' = [wchClosed EXCEPT ![i] = TRUE]
    /\ UNCHANGED <<diagram, typeCalls, mode, watchers, ctxDone, next, aggPc, wg, cpc, watchCalls, src,
                   wch, wpc, held, label, out, closeCount, consumer, nread, emitted,
                   emitLog, sendLog, dropped, panicked, cancelCount>>

\* Either select: case <-ctx.Done(): return, with the deferred close(ch).
ProducerCancel(i) ==
    /\ ppc[i] \in {"idle", "holding"}
    /\ ctxDone
    /\ ClosesOnCancel(watchers[i])
    /\ ppc' = [ppc EXCEPT ![i] = "done"]
    /\ pheld' = [pheld EXCEPT ![i] = <<>>]
    /\ wchClosed' = [wchClosed EXCEPT ![i] = TRUE]
    /\ UNCHANGED <<diagram, typeCalls, mode, watchers, ctxDone, next, aggPc, wg, cpc, watchCalls, src,
                   wch, wpc, held, label, out, closeCount, consumer, nread, emitted,
                   emitLog, sendLog, dropped, panicked, cancelCount>>

\* A producer that ends its stream on its own: the goroutine returns, with
\* the deferred close, when it has nothing more to forward.
ProducerClose(i) ==
    /\ ppc[i] = "idle"
    /\ ClosesByItself(watchers[i])
    /\ src[i] = <<>>
    /\ ppc' = [ppc EXCEPT ![i] = "done"]
    /\ wchClosed' = [wchClosed EXCEPT ![i] = TRUE]
    /\ UNCHANGED <<diagram, typeCalls, mode, watchers, ctxDone, next, aggPc, wg, cpc, watchCalls, src,
                   pheld, wch, wpc, held, label, out, closeCount, consumer, nread,
                   emitted, emitLog, sendLog, dropped, panicked, cancelCount>>

ProducerStep(i) == ProducerTake(i) \/ ProducerForward(i) \/ ProducerCancel(i)

----------------------------------------------------------------------------
(* The aggregator call *)

\* Mutant: an incapable producer ends the loop (break instead of continue).
AggInspectBreak ==
    /\ mode = "watchers"
    /\ aggPc = "loop"
    /\ next <= Len(watchers)
    /\ typeCalls' = [typeCalls EXCEPT ![next] = @ + ComponentTypeQueries(watchers[next])]
    /\ LET w == watchers[next]
           compType == IF w = "nil" \/ ~HasComponentType(w) THEN "" ELSE ComponentTypeOf(w)
       IN  IF compType = "" \/ ~HasWatch(w)
           THEN /\ next' = Len(watchers) + 1
                /\ UNCHANGED <<watchCalls, ppc, wg, wpc, label>>
           ELSE /\ watchCalls' = [watchCalls EXCEPT ![next] = @ + 1]
                /\ ppc' = [ppc EXCEPT ![next] = "idle"]
                /\ wg' = wg + 1
                /\ wpc' = [wpc EXCEPT ![next] = "recv"]
                /\ label' = [label EXCEPT ![next] = compType]
                /\ next' = next + 1
    /\ UNCHANGED <<diagram, mode, watchers, ctxDone, aggPc, cpc, src, pheld, wch, wchClosed,
                   held, out, closeCount, consumer, nread, emitted, emitLog,
                   sendLog, dropped, panicked, cancelCount>>

\* Mutant: the empty type label is not checked; only the Watch method is.
AggInspectNoEmptyCheck ==
    /\ mode = "watchers"
    /\ aggPc = "loop"
    /\ next <= Len(watchers)
    /\ typeCalls' = [typeCalls EXCEPT ![next] = @ + ComponentTypeQueries(watchers[next])]
    /\ LET w == watchers[next]
           compType == inferComponentType(w)
       IN  IF ~HasComponentType(w) \/ ~HasWatch(w)
           THEN UNCHANGED <<watchCalls, ppc, wg, wpc, label>>
           ELSE /\ watchCalls' = [watchCalls EXCEPT ![next] = @ + 1]
                /\ ppc' = [ppc EXCEPT ![next] = "idle"]
                /\ wg' = wg + 1
                /\ wpc' = [wpc EXCEPT ![next] = "recv"]
                /\ label' = [label EXCEPT ![next] = compType]
    /\ next' = next + 1
    /\ UNCHANGED <<diagram, mode, watchers, ctxDone, aggPc, cpc, src, pheld, wch, wchClosed,
                   held, out, closeCount, consumer, nread, emitted, emitLog,
                   sendLog, dropped, panicked, cancelCount>>

\* Mutant: Watch(ctx) is called by the worker goroutine, not by the loop.
AggInspectDeferred ==
    /\ mode = "watchers"
    /\ aggPc = "loop"
    /\ next <= Len(watchers)
    /\ typeCalls' = [typeCalls EXCEPT ![next] = @ + ComponentTypeQueries(watchers[next])]
    /\ LET w == watchers[next]
           compType == inferComponentType(w)
       IN  IF compType = "" \/ ~HasWatch(w)
           THEN UNCHANGED <<wg, wpc, label>>
           ELSE /\ wg' = wg + 1
                /\ wpc' = [wpc EXCEPT ![next] = "start"]
                /\ label' = [label EXCEPT ![next] = compType]
    /\ next' = next + 1
    /\ UNCHANGED <<diagram, mode, watchers, ctxDone, aggPc, cpc, watchCalls, ppc, src,
                   pheld, wch, wchClosed, held, out, closeCount, consumer, nread,
                   emitted, emitLog, sendLog, dropped, panicked, cancelCount>>

\* One iteration of `for _, w := range watchers` of AggregateWatchers: the two
\* capability checks, the reflective Watch(ctx) call, wg.Add(1) and the go statement.
AggInspect ==
    /\ mode = "watchers"
    /\ aggPc = "loop"
    /\ next <= Len(watchers)
    /\ typeCalls' = [typeCalls EXCEPT ![next] = @ + ComponentTypeQueries(watchers[next])]
    /\ LET w == watchers[next]
           compType == inferComponentType(w)
       IN  IF compType = "" \/ ~HasWatch(w)
           THEN UNCHANGED <<watchCalls, ppc, wg, wpc, label>>
           ELSE /\ watchCalls' = [watchCalls EXCEPT ![next] = @ + 1]
                /\ ppc' = [ppc EXCEPT ![next] = "idle"]
                /\ wg' = wg + 1
                /\ wpc' = [wpc EXCEPT ![next] = "recv"]
                /\ label' = [label EXCEPT ![next] = compType]
    /\ next' = next + 1
    /\ UNCHANGED <<diagram, mode, watchers, ctxDone, aggPc, cpc, src, pheld, wch, wchClosed,
                   held, out, closeCount, consumer, nread, emitted, emitLog,
                   sendLog, dropped, panicked, cancelCount>>

\* One iteration of `for _, src := range sources` of AggregateEvents.
AggSpawn ==
    /\ mode = "events"
    /\ aggPc = "loop"
    /\ next <= Len(watchers)
    /\ wg' = wg + 1
    /\ wpc' = [wpc EXCEPT ![next] = "start"]
    /\ next' = next + 1
    /\ UNCHANGED <<diagram, typeCalls, mode, watchers, ctxDone, aggPc, cpc, watchCalls, src, ppc, pheld,
                   wch, wchClosed, held, label, out, closeCount, consumer, nread,
                   emitted, emitLog, sendLog, dropped, panicked, cancelCount>>

\* Mutant: without producers the call returns without starting the closer.
AggReturnNoCloserWhenEmpty ==
    /\ aggPc = "loop"
    /\ next > Len(watchers)
    /\ cpc' = IF Len(watchers) = 0 THEN "none" ELSE "waiting"
    /\ aggPc' = "returned"
    /\ UNCHANGED <<diagram, typeCalls, mode, watchers, ctxDone, next, wg, watchCalls, src, ppc, pheld,
                   wch, wchClosed, wpc, held, label, out, closeCount, consumer,
                   nread, emitted, emitLog, sendLog, dropped, panicked, cancelCount>>

\* After the loop: go func() { wg.Wait(); close(out) }() and return out.
AggReturn ==
    /\ aggPc = "loop"
    /\ next > Len(watchers)
    /\ cpc' = "waiting"
    /\ aggPc' = "returned"
    /\ UNCHANGED <<diagram, typeCalls, mode, watchers, ctxDone, next, wg, watchCalls, src, ppc, pheld,
                   wch, wchClosed, wpc, held, label, out, closeCount, consumer,
                   nread, emitted, emitLog, sendLog, dropped, panicked, cancelCount>>

\* Mutant: the closer does not wait for the workers.
WaitSkipped == TRUE

\* wg.Wait() returns when the counter is zero.
WaitDone == wg = 0

\* The closer goroutine: wg.Wait(); close(out).
CloserClose ==
    /\ cpc = "waiting"
    /\ WaitDone
    /\ cpc' = "done"
    /\ closeCount' = closeCount + 1
    /\ panicked' = (panicked \/ closeCount > 0)
    /\ UNCHANGED <<diagram, typeCalls, mode, watchers, ctxDone, next, aggPc, wg, watchCalls, src, ppc,
                   pheld, wch, wchClosed, wpc, held, label, out, consumer, nread,
                   emitted, emitLog, sendLog, dropped, cancelCount>>

outClosed == closeCount > 0

----------------------------------------------------------------------------
(* Workers *)

\* AggregateEvents worker: `range source.Events(ctx)` evaluates Events once.
WorkerStart(i) ==
    /\ wpc[i] = "start"
    /\ watchCalls' = [watchCalls EXCEPT ![i] = @ + 1]
    /\ ppc' = [ppc EXCEPT ![i] = "idle"]
    /\ wpc' = [wpc EXCEPT ![i] = "recv"]
    /\ UNCHANGED <<diagram, typeCalls, mode, watchers, ctxDone, next, aggPc, wg, cpc, src, pheld, wch,
                   wchClosed, held, label, out, closeCount, consumer, nread,
                   emitted, emitLog, sendLog, dropped, panicked, cancelCount>>

\* Mutant: the received value stays queued in the channel.
WorkerRecvPeeks(i) ==
    /\ mode # "adapter"
    /\ wpc[i] = "recv"
    /\ wch[i] # <<>>
    /\ held' = [held EXCEPT ![i] = <<Envelope(i, Head(wch[i]))>>]
    /\ wpc' = [wpc EXCEPT ![i] = "send"]
    /\ UNCHANGED <<diagram, typeCalls, mode, watchers, ctxDone, next, aggPc, wg, cpc, watchCalls, src,
                   ppc, pheld, wch, wchClosed, label, out, closeCount, consumer, nread,
                   emitted, emitLog, sendLog, dropped, panicked, cancelCount>>

\* val, ok := changeChan.Recv() with a value queued in the channel.
WorkerRecv(i) ==
    /\ mode # "adapter"
    /\ wpc[i] = "recv"
    /\ wch[i] # <<>>
    /\ held' = [held EXCEPT ![i] = <<Envelope(i, Head(wch[i]))>>]
    /\ wch' = [wch EXCEPT ![i] = Tail(@)]
    /\ wpc' = [wpc EXCEPT ![i] = "send"]
    /\ UNCHANGED <<diagram, typeCalls, mode, watchers, ctxDone, next, aggPc, wg, cpc, watchCalls, src,
                   ppc, pheld, wchClosed, label, out, closeCount, consumer, nread,
                   emitted, emitLog, sendLog, dropped, panicked, cancelCount>>

\* Mutant: the worker ignores the close and keeps waiting in Recv.
RecvNeverEnds(i) == FALSE

\* Mutant: a worker that finds no value queued takes the stream for closed.
RecvEndsWhenIdle(i) == wch[i] = <<>>

\* What unblocks a worker waiting in Recv without a value: the stream closed.
RecvEnds(i) == wch[i] = <<>> /\ wchClosed[i]

\* The zero value Recv yields together with ok = false.
ZeroValue ==
    IF mode = "events"
    THEN [ComponentID |-> "", ComponentType |-> "", Timestamp |-> 0, EventType |-> ""]
    ELSE [ComponentID |-> "", ComponentType |-> "", OldState |-> 0, NewState |-> 0,
          Timestamp |-> 0]

\* Mutant: ok is not tested; the zero value of the closed stream is sent
\* before the worker returns.
WorkerStreamClosedSendsZero(i) ==
    /\ mode # "adapter"
    /\ wpc[i] = "recv"
    /\ RecvEnds(i)
    /\ ~outClosed
    /\ Len(out) < OutCap
    /\ out' = Append(out, Envelope(i, ZeroValue))
    /\ sendLog' = Append(sendLog, [w |-> i, v |-> Envelope(i, ZeroValue)])
    /\ wpc' = [wpc EXCEPT ![i] = "exit"]
    /\ wg' = wg - 1
    /\ UNCHANGED <<diagram, typeCalls, mode, watchers, ctxDone, next, aggPc, cpc, watchCalls, src, ppc,
                   pheld, wch, wchClosed, held, label, closeCount, consumer,
                   nread, emitted, emitLog, dropped, panicked, cancelCount>>

\* if !ok { return }, with the deferred wg.Done().
WorkerStreamClosed(i) ==
    /\ mode # "adapter"
    /\ wpc[i] = "recv"
    /\ RecvEnds(i)
    /\ wpc' = [wpc EXCEPT ![i] = "exit"]
    /\ wg' = wg - 1
    /\ UNCHANGED <<diagram, typeCalls, mode, watchers, ctxDone, next, aggPc, cpc, watchCalls, src, ppc,
                   pheld, wch, wchClosed, held, label, out, closeCount, consumer,
                   nread, emitted, emitLog, sendLog, dropped, panicked, cancelCount>>

\* Mutant: the newest element overtakes the ones already buffered.
EnqueueFront(q, v) == <<v>> \o q

\* The output buffer after a send of v.
Enqueue(q, v) == Append(q, v)

\* Mutant: after the send the worker does not go back to Recv and sends the
\* same element again.
WorkerSendAgain(i) ==
    /\ mode # "adapter"
    /\ wpc[i] = "send"
    /\ closeCount = 0
    /\ Len(out) < OutCap
    /\ out' = Append(out, held[i][1])
    /\ sendLog' = Append(sendLog, [w |-> i, v |-> held[i][1]])
    /\ UNCHANGED <<diagram, typeCalls, mode, watchers, ctxDone, next, aggPc, wg, cpc, watchCalls, src,
                   ppc, pheld, wch, wchClosed, wpc, held, label, closeCount,
                   consumer, nread, emitted, emitLog, dropped, panicked, cancelCount>>

\* Mutant: the output channel takes any number of elements.
WorkerSendUnbounded(i) ==
    /\ mode # "adapter"
    /\ wpc[i] = "send"
    /\ closeCount = 0
    /\ out' = Enqueue(out, held[i][1])
    /\ sendLog' = Append(sendLog, [w |-> i, v |-> held[i][1]])
    /\ held' = [held EXCEPT ![i] = <<>>]
    /\ wpc' = [wpc EXCEPT ![i] = "recv"]
    /\ UNCHANGED <<diagram, typeCalls, mode, watchers, ctxDone, next, aggPc, wg, cpc, watchCalls, src,
                   ppc, pheld, wch, wchClosed, label, closeCount, consumer, nread,
                   emitted, emitLog, dropped, panicked, cancelCount>>

\* select: case out <- snapshot.  A send on a closed channel panics.
WorkerSend(i) ==
    /\ mode # "adapter"
    /\ wpc[i] = "send"
    /\ IF outClosed
       THEN /\ panicked' = TRUE
            /\ UNCHANGED <<out, sendLog>>
       ELSE /\ Len(out) < OutCap
            /\ out' = Enqueue(out, held[i][1])
            /\ sendLog' = Append(sendLog, [w |-> i, v |-> held[i][1]])
            /\ UNCHANGED panicked
    /\ held' = [held EXCEPT ![i] = <<>>]
    /\ wpc' = [wpc EXCEPT ![i] = "recv"]
    /\ UNCHANGED <<diagram, typeCalls, mode, watchers, ctxDone, next, aggPc, wg, cpc, watchCalls, src,
                   ppc, pheld, wch, wchClosed, label, closeCount, consumer, nread,
                   emitted, emitLog, dropped, cancelCount>>

\* Mutant: the send is a plain `out <- snapshot`, without the ctx.Done() case.
SendNeverAbandoned(i) == FALSE

\* Mutant: a worker also gives up when the output buffer is full.
SendAbandonedWhenFull(i) == ctxDone \/ Len(out) = OutCap

\* What lets a worker leave the send select without sending.
SendAbandoned(i) == ctxDone

\* select: case <-ctx.Done(): return, with the deferred wg.Done().
WorkerCancel(i) ==
    /\ mode # "adapter"
    /\ wpc[i] = "send"
    /\ SendAbandoned(i)
    /\ dropped' = [dropped EXCEPT ![i] = Append(@, held[i][1])]
    /\ held' = [held EXCEPT ![i] = <<>>]
    /\ wpc' = [wpc EXCEPT ![i] = "exit"]
    /\ wg' = wg - 1
    /\ UNCHANGED <<diagram, typeCalls, mode, watchers, ctxDone, next, aggPc, cpc, watchCalls, src, ppc,
                   pheld, wch, wchClosed, label, out, closeCount, consumer, nread,
                   emitted, emitLog, sendLog, panicked, cancelCount>>

WorkerStep(i) ==
    \/ WorkerStart(i)
    \/ WorkerRecv(i)
    \/ WorkerStreamClosed(i)
    \/ WorkerSend(i)
    \/ WorkerCancel(i)

----------------------------------------------------------------------------
(* WatcherAdapter *)

\* Mutant: the adapter keeps the ComponentType field of the transition.
AdapterSnapshotKeepsType(componentType, change) ==
    [ComponentID   |-> change.ComponentID,
     ComponentType |-> change.ComponentType,
     Timestamp     |-> change.Timestamp,
     Payload       |-> change.NewState]

\* The StateSnapshot literal of the send case of Snapshots.
AdapterSnapshot(componentType, change) ==
    [ComponentID   |-> change.ComponentID,
     ComponentType |-> componentType,
     Timestamp     |-> change.Timestamp,
     Payload       |-> change.NewState]

\* Mutant: the constructor already subscribes to the wrapped watcher.
NewWatcherAdapterSubscribes ==
    /\ mode = "adapter"
    /\ aggPc = "loop"
    /\ \E l \in AdapterLabels : label' = [label EXCEPT ![1] = l]
    /\ watchCalls' = [watchCalls EXCEPT ![1] = @ + 1]
    /\ aggPc' = "constructed"
    /\ UNCHANGED <<diagram, typeCalls, mode, watchers, ctxDone, next, wg, cpc, src,
                   ppc, pheld, wch, wchClosed, wpc, held, out, closeCount, consumer,
                   nread, emitted, emitLog, sendLog, dropped, panicked, cancelCount>>

\* NewWatcherAdapter(label, w): the label and the watcher are stored.
NewWatcherAdapter ==
    /\ mode = "adapter"
    /\ aggPc = "loop"
    /\ \E l \in AdapterLabels : label' = [label EXCEPT ![1] = l]
    /\ aggPc' = "constructed"
    /\ UNCHANGED <<diagram, typeCalls, mode, watchers, ctxDone, next, wg, cpc,
                   watchCalls, src, ppc, pheld, wch, wchClosed, wpc, held, out,
                   closeCount, consumer, nread, emitted, emitLog, sendLog, dropped,
                   panicked, cancelCount>>

\* Snapshots(ctx): the channel is made, the forwarding goroutine is started
\* and the channel is returned.
AdapterSnapshots ==
    /\ mode = "adapter"
    /\ aggPc = "constructed"
    /\ wpc' = [wpc EXCEPT ![1] = "astart"]
    /\ aggPc' = "returned"
    /\ UNCHANGED <<diagram, typeCalls, mode, watchers, ctxDone, next, wg, cpc,
                   watchCalls, src, ppc, pheld, wch, wchClosed, held, label, out,
                   closeCount, consumer, nread, emitted, emitLog, sendLog, dropped,
                   panicked, cancelCount>>

\* The goroutine evaluates a.watcher.Watch(ctx), once, for its range loop.
AdapterWatch ==
    /\ mode = "adapter"
    /\ wpc[1] = "astart"
    /\ watchCalls' = [watchCalls EXCEPT ![1] = @ + 1]
    /\ ppc' = [ppc EXCEPT ![1] = "idle"]
    /\ wpc' = [wpc EXCEPT ![1] = "recv"]
    /\ UNCHANGED <<diagram, typeCalls, mode, watchers, ctxDone, next, aggPc, wg, cpc, src, pheld, wch,
                   wchClosed, held, label, out, closeCount, consumer, nread,
                   emitted, emitLog, sendLog, dropped, panicked, cancelCount>>

\* for change := range ...: a transition queued in the stream is received.
AdapterRecv ==
    /\ mode = "adapter"
    /\ wpc[1] = "recv"
    /\ wch[1] # <<>>
    /\ held' = [held EXCEPT ![1] = <<Head(wch[1])>>]
    /\ wch' = [wch EXCEPT ![1] = Tail(@)]
    /\ wpc' = [wpc EXCEPT ![1] = "send"]
    /\ UNCHANGED <<diagram, typeCalls, mode, watchers, ctxDone, next, aggPc, wg, cpc, watchCalls, src,
                   ppc, pheld, wchClosed, label, out, closeCount, consumer, nread,
                   emitted, emitLog, sendLog, dropped, panicked, cancelCount>>

\* Mutant: the channel is closed by the return and once more by the defer.
AdapterClosesTwice == closeCount + 2

\* defer close(ch), run when the goroutine returns.
AdapterDeferredClose == closeCount + 1

\* The range loop ends because the stream is closed; the goroutine returns.
AdapterRangeEnds ==
    /\ mode = "adapter"
    /\ wpc[1] = "recv"
    /\ RecvEnds(1)
    /\ wpc' = [wpc EXCEPT ![1] = "exit"]
    /\ closeCount' = AdapterDeferredClose
    /\ panicked' = (panicked \/ closeCount > 0)
    /\ UNCHANGED <<diagram, typeCalls, mode, watchers, ctxDone, next, aggPc, wg, cpc, watchCalls, src,
                   ppc, pheld, wch, wchClosed, held, label, out, consumer, nread,
                   emitted, emitLog, sendLog, dropped, cancelCount>>

\* Mutant: the goroutine sends the snapshot and stays at the send.
AdapterSendTwice ==
    /\ mode = "adapter"
    /\ wpc[1] = "send"
    /\ closeCount = 0
    /\ Len(out) < AdapterCap
    /\ out' = Append(out, AdapterSnapshot(label[1], held[1][1]))
    /\ sendLog' = Append(sendLog, [w |-> 1, v |-> AdapterSnapshot(label[1], held[1][1])])
    /\ UNCHANGED <<diagram, typeCalls, mode, watchers, ctxDone, next, aggPc, wg, cpc, watchCalls, src,
                   ppc, pheld, wch, wchClosed, wpc, held, label, closeCount,
                   consumer, nread, emitted, emitLog, dropped, panicked, cancelCount>>

\* select: case ch <- StateSnapshot{...}.  A send on a closed channel panics.
AdapterSend ==
    /\ mode = "adapter"
    /\ wpc[1] = "send"
    /\ IF outClosed
       THEN /\ panicked' = TRUE
            /\ UNCHANGED <<out, sendLog>>
       ELSE /\ Len(out) < AdapterCap
            /\ out' = Append(out, AdapterSnapshot(label[1], held[1][1]))
            /\ sendLog' = Append(sendLog,
                                 [w |-> 1, v |-> AdapterSnapshot(label[1], held[1][1])])
            /\ UNCHANGED panicked
    /\ held' = [held EXCEPT ![1] = <<>>]
    /\ wpc' = [wpc EXCEPT ![1] = "recv"]
    /\ UNCHANGED <<diagram, typeCalls, mode, watchers, ctxDone, next, aggPc, wg, cpc, watchCalls, src,
                   ppc, pheld, wch, wchClosed, label, closeCount, consumer, nread,
                   emitted, emitLog, dropped, cancelCount>>

\* select: case <-ctx.Done(): return, with the deferred close(ch).
AdapterCancel ==
    /\ mode = "adapter"
    /\ wpc[1] = "send"
    /\ ctxDone
    /\ dropped' = [dropped EXCEPT ![1] = Append(@, held[1][1])]
    /\ held' = [held EXCEPT ![1] = <<>>]
    /\ wpc' = [wpc EXCEPT ![1] = "exit"]
    /\ closeCount' = AdapterDeferredClose
    /\ panicked' = (panicked \/ closeCount > 0)
    /\ UNCHANGED <<diagram, typeCalls, mode, watchers, ctxDone, next, aggPc, wg, cpc, watchCalls, src,
                   ppc, pheld, wch, wchClosed, label, out, consumer, nread,
                   emitted, emitLog, sendLog, cancelCount>>

AdapterStep ==
    \/ NewWatcherAdapter
    \/ AdapterSnapshots
    \/ AdapterWatch
    \/ AdapterRecv
    \/ AdapterRangeEnds
    \/ AdapterSend
    \/ AdapterCancel

----------------------------------------------------------------------------
(* Environment: the cancellation token and the consumer *)

\* cancel() of the caller (ExampleAggregateWatchers calls it from its receive
\* loop once count >= 2), or the deadline of the context.
Cancel ==
    /\ ~ctxDone
    /\ ctxDone' = TRUE
    /\ cancelCount' = nread
    /\ UNCHANGED <<diagram, typeCalls, mode, watchers, next, aggPc, wg, cpc, watchCalls, src, ppc, pheld,
                   wch, wchClosed, wpc, held, label, out, closeCount, consumer,
                   nread, emitted, emitLog, sendLog, dropped, panicked>>

\* The consumer receives from the returned channel: a value, or the close.
\* Nothing obliges it to: a consumer that stops reading is a behaviour in
\* which this action is never taken again, and after MaxRead elements it
\* has stopped for good.
ConsumerRecv ==
    /\ consumer = "reading"
    /\ aggPc = "returned"
    /\ IF out # <<>>
       THEN /\ nread < MaxRead
            /\ out' = Tail(out)
            /\ nread' = nread + 1
            /\ UNCHANGED consumer
       ELSE /\ outClosed
            /\ consumer' = "closed"
            /\ UNCHANGED <<out, nread>>
    /\ UNCHANGED <<diagram, typeCalls, mode, watchers, ctxDone, next, aggPc, wg, cpc, watchCalls, src,
                   ppc, pheld, wch, wchClosed, wpc, held, label, closeCount,
                   emitted, emitLog, sendLog, dropped, panicked, cancelCount>>

----------------------------------------------------------------------------
(* Specification *)

ProducerLists(kinds) == UNION {[1..n -> kinds] : n \in 0..MaxProducers}

Init ==
    /\ mode \in {"watchers", "events", "adapter"}
    /\ watchers \in CASE mode = "watchers" -> ProducerLists(WatcherKinds)
                     [] mode = "events"   -> ProducerLists(EventKinds)
                     [] mode = "adapter"  -> [1..1 -> AdapterKinds]
    /\ ctxDone = FALSE
    /\ next = 1
    /\ aggPc = "loop"
    /\ wg = 0
    /\ cpc = "none"
    /\ watchCalls = [i \in DOMAIN watchers |-> 0]
    /\ src = [i \in DOMAIN watchers |-> <<>>]
    /\ ppc = [i \in DOMAIN watchers |-> "none"]
    /\ pheld = [i \in DOMAIN watchers |-> <<>>]
    /\ wch = [i \in DOMAIN watchers |-> <<>>]
    /\ wchClosed = [i \in DOMAIN watchers |-> FALSE]
    /\ wpc = [i \in DOMAIN watchers |-> "none"]
    /\ held = [i \in DOMAIN watchers |-> <<>>]
    /\ label = [i \in DOMAIN watchers |-> ""]
    /\ out = <<>>
    /\ closeCount = 0
    /\ consumer = "reading"
    /\ nread = 0
    /\ emitted = [i \in DOMAIN watchers |-> 0]
    /\ emitLog = [i \in DOMAIN watchers |-> <<>>]
    /\ sendLog = <<>>
    /\ dropped = [i \in DOMAIN watchers |-> <<>>]
    /\ panicked = FALSE
    /\ cancelCount = 0
    /\ typeCalls = [i \in DOMAIN watchers |-> 0]
    /\ diagram = NoDiagram

AggStep == AggInspect \/ AggSpawn \/ AggReturn

Next ==
    \/ AggInspect
    \/ AggSpawn
    \/ AggReturn
    \/ CloserClose
    \/ Cancel
    \/ ConsumerRecv
    \/ \E i \in Procs : SendChange(i)
    \/ \E i \in Procs : ProducerTake(i)
    \/ \E i \in Procs : ProducerForward(i)
    \/ \E i \in Procs : ProducerCancel(i)
    \/ \E i \in Procs : ProducerClose(i)
    \/ \E i \in Procs : WorkerStart(i)
    \/ \E i \in Procs : WorkerRecv(i)
    \/ \E i \in Procs : WorkerStreamClosed(i)
    \/ \E i \in Procs : WorkerSend(i)
    \/ \E i \in Procs : WorkerCancel(i)
    \/ NewWatcherAdapter
    \/ AdapterSnapshots
    \/ AdapterWatch
    \/ AdapterRecv
    \/ AdapterRangeEnds
    \/ AdapterSend
    \/ AdapterCancel

Spec == Init /\ [][Next]_vars

\* The Go scheduler runs every goroutine that can take a step: the aggregator
\* call, the closer, each forwarding goroutine, each worker and the adapter's
\* goroutine.  Nothing forces the callers to send changes, to cancel, the
\* consumer to read, or a producer to end its stream by itself.
Fairness ==
    /\ WF_vars(AggStep)
    /\ WF_vars(CloserClose)
    /\ WF_vars(AdapterStep)
    /\ \A i \in 1..MaxProducers :
         /\ WF_vars(i \in Procs /\ ProducerStep(i))
         /\ WF_vars(i \in Procs /\ WorkerStep(i))

FairSpec == Init /\ [][Next]_vars /\ Fairness

\* The same with a consumer that keeps reading: whenever the output has an
\* element for it, or is closed, it eventually receives.
ReadingSpec == Init /\ [][Next]_vars /\ Fairness /\ WF_vars(ConsumerRecv)

----------------------------------------------------------------------------
(* The Mermaid renderers.  A rendered diagram is the sequence of its lines, *)
(* each line a record with its kind; a node label is the sequence of the   *)
(* segments the code joins with <br/>.  The icons of the labels are written *)
(* as ASCII letters.                                                        *)

\* Reflection helpers: the zero value when the struct has no such field.
getIntField(v, name) == IF name \in DOMAIN v THEN v[name] ELSE 0

getBoolField(v, name) == IF name \in DOMAIN v THEN v[name] ELSE FALSE

getStringField(v, name) == IF name \in DOMAIN v THEN v[name] ELSE ""

\* A nil map[string]string.
NilMap == [k \in {} |-> ""]

getMapField(v, name) == IF name \in DOMAIN v THEN v[name] ELSE NilMap

getSliceField(v, name) == IF name \in DOMAIN v THEN v[name] ELSE <<>>

\* A value stored in a field of type any, as reflect sees it.  Kind "Nil" is
\* the nil interface: getField returns nil for it.
NilValue == [Kind |-> "Nil", IsNil |-> TRUE, Text |-> "<nil>"]

getField(v, name) == IF name \in DOMAIN v THEN v[name] ELSE NilValue

\* The classDef lines of DefaultStyles.
DefaultStyles ==
    LET names == <<"created", "pending", "starting", "running", "suspended",
                   "stopping", "stopped", "finished", "killed", "failed",
                   "container", "process", "goroutine", "supervisor", "signal",
                   "active">>
    IN  [k \in 1..Len(names) |-> [kind |-> "classDef", class |-> names[k]]]

DefaultDiagramConfig ==
    [PrimaryID        |-> "primary",
     PrimaryLabel     |-> "Primary Component",
     PrimaryNodeLabel |-> "Component",
     SecondaryID      |-> "secondary",
     SecondaryLabel   |-> "Secondary Component",
     ConnectionLabel  |-> "manages"]

\* icon, shapeStart, shapeEnd, cssClass by the "type" entry of the metadata.
defaultNodeStyler(metadata) ==
    LET nodeType == IF "type" \in DOMAIN metadata THEN metadata["type"] ELSE "process"
    IN  CASE nodeType \in {"supervisor", "manager", "coordinator"} ->
                 [icon |-> "S", shapeStart |-> "{{", shapeEnd |-> "}}", cssClass |-> "supervisor"]
          [] nodeType \in {"process", "task"} ->
                 [icon |-> "P", shapeStart |-> "[", shapeEnd |-> "]", cssClass |-> "process"]
          [] nodeType \in {"container", "pod"} ->
                 [icon |-> "C", shapeStart |-> "[[", shapeEnd |-> "]]", cssClass |-> "container"]
          [] nodeType \in {"func", "goroutine", "function"} ->
                 [icon |-> "L", shapeStart |-> "(", shapeEnd |-> ")", cssClass |-> "goroutine"]
          [] OTHER ->
                 [icon |-> "P", shapeStart |-> "[", shapeEnd |-> "]", cssClass |-> "process"]

\* The label segments of a tree node.
defaultNodeLabeler(name, status, pid, metadata, icon) ==
    <<"<b>" \o icon \o " " \o name \o "</b>">>
    \o (IF status # "" THEN <<"Status: " \o status>> ELSE <<>>)
    \o (IF pid > 0 THEN <<"PID: " \o ToString(pid)>> ELSE <<>>)
    \o (IF "image" \in DOMAIN metadata /\ metadata["image"] # ""
        THEN <<"Image: " \o metadata["image"]>> ELSE <<>>)
    \o (IF "restarts" \in DOMAIN metadata /\ metadata["restarts"] # "0"
        THEN <<"Restarts: " \o metadata["restarts"]>> ELSE <<>>)

\* strings.ToLower on the status strings of the inputs.
ToLower(s) ==
    CASE s = "Running" -> "running"
      [] s = "Stopped" -> "stopped"
      [] OTHER -> s

\* The node line and the class line of the primary component.
renderGenericFragment(comp, id, labelPrefix) ==
    LET enabled  == getBoolField(comp, "Enabled")
        stopping == getBoolField(comp, "Stopping")
        stopped  == getBoolField(comp, "Stopped")
        field    == getStringField(comp, "Reason")
        status   == IF ~enabled THEN [mode |-> "Disabled", class |-> "stopped"]
                    ELSE IF stopped THEN [mode |-> "Stopped", class |-> "stopped"]
                    ELSE IF stopping THEN [mode |-> "Stopping", class |-> "pending"]
                    ELSE [mode |-> "Running", class |-> "running"]
        reason   == IF field = "" THEN "None" ELSE field
        segments == <<"<b>" \o labelPrefix \o "</b>", "Mode: " \o status.mode>>
                    \o (IF reason # "None" THEN <<"Reason: " \o reason>> ELSE <<>>)
    IN  <<[kind |-> "node", id |-> id, shapeStart |-> "[", shapeEnd |-> "]",
           label |-> segments, class |-> "signal"],
          [kind |-> "class", id |-> id, class |-> status.class]>>

RECURSIVE renderGenericNode(_, _)
RECURSIVE renderChildren(_, _, _)

\* for i, child := range children, from the i-th child (counted from 0) on.
renderChildren(children, id, i) ==
    IF i >= Len(children) THEN <<>>
    ELSE LET childID == id \o "_" \o ToString(i)
         IN  renderGenericNode(children[i + 1], childID)
             \o <<[kind |-> "edge", from |-> id, to |-> childID, label |-> ""]>>
             \o renderChildren(children, id, i + 1)

\* A tree node, its class line and, recursively, its children.
renderGenericNode(node, id) ==
    LET name     == getStringField(node, "Name")
        status   == getStringField(node, "Status")
        pid      == getIntField(node, "PID")
        metadata == getMapField(node, "Metadata")
        children == getSliceField(node, "Children")
        style    == defaultNodeStyler(metadata)
        segments == defaultNodeLabeler(name, status, pid, metadata, style.icon)
        statusClass == IF ToLower(status) = "" THEN "pending" ELSE ToLower(status)
    IN  <<[kind |-> "node", id |-> id, shapeStart |-> style.shapeStart,
           shapeEnd |-> style.shapeEnd, label |-> segments, class |-> style.cssClass],
          [kind |-> "class", id |-> id, class |-> statusClass]>>
        \o renderChildren(children, id, 0)

renderGenericTree(root, rootID) == renderGenericNode(root, rootID)

\* ComponentDiagram(primary, secondary, nil): the default configuration.
ComponentDiagram(primary, secondary) ==
    LET config == DefaultDiagramConfig
    IN  <<[kind |-> "header", text |-> "graph TD"],
          [kind |-> "subgraph", id |-> config.PrimaryID \o "_graph",
           label |-> config.PrimaryLabel]>>
        \o renderGenericFragment(primary, config.PrimaryID, config.PrimaryNodeLabel)
        \o <<[kind |-> "end"],
             [kind |-> "subgraph", id |-> config.SecondaryID \o "_graph",
              label |-> config.SecondaryLabel]>>
        \o renderGenericTree(secondary, config.SecondaryID)
        \o <<[kind |-> "end"],
             [kind |-> "edge", from |-> config.PrimaryID, to |-> config.SecondaryID,
              label |-> config.ConnectionLabel]>>
        \o DefaultStyles

\* SignalStateMachine(sig) of mermaid_legacy.go.
SignalStateMachine(sig) ==
    LET forceExitThreshold == getIntField(sig, "ForceExitThreshold")
        hookTimeout == getField(sig, "HookTimeout")
        stopping    == getBoolField(sig, "Stopping")
        received    == getField(sig, "Received")
        signals     == IF forceExitThreshold = 1 THEN "SIGINT/SIGTERM" ELSE "SIGTERM"
        stoppedState == getBoolField(sig, "Stopped")
    IN  <<[kind |-> "header", text |-> "stateDiagram-v2"],
          [kind |-> "transition", from |-> "[*]", to |-> "Running", label |-> ""],
          [kind |-> "transition", from |-> "Running", to |-> "Graceful", label |-> signals],
          [kind |-> "note", side |-> "right", of |-> "Graceful",
           text |-> <<"Context Cancelled", "Hooks Running (LIFO)",
                      "Timeout: " \o hookTimeout.Text>>]>>
        \o (IF forceExitThreshold > 0
            THEN <<[kind |-> "transition", from |-> "Graceful", to |-> "ForceExit",
                    label |-> "Signal x" \o ToString(forceExitThreshold)],
                   [kind |-> "transition", from |-> "ForceExit", to |-> "[*]",
                    label |-> "os.Exit(1)"]>>
            ELSE <<>>)
        \o <<[kind |-> "transition", from |-> "Graceful", to |-> "[*]",
              label |-> "Hooks Complete"]>>
        \o (IF stoppedState THEN <<[kind |-> "class", id |-> "[*]", class |-> "stopped"]>>
            ELSE IF stopping THEN <<[kind |-> "class", id |-> "Graceful", class |-> "stopping"]>>
            ELSE IF received.Kind = "Nil"
                 THEN <<[kind |-> "class", id |-> "Running", class |-> "running"]>>
            ELSE IF received.Kind \in {"Ptr", "Interface"} /\ received.IsNil
                 THEN <<[kind |-> "class", id |-> "Running", class |-> "running"]>>
            ELSE <<>>)
        \o (IF received.Kind # "Nil"
               /\ ~(received.Kind \in {"Ptr", "Interface", "Slice", "Map", "Chan", "Func"}
                    /\ received.IsNil)
            THEN <<[kind |-> "note", side |-> "left", of |-> "Graceful",
                    text |-> <<"Received " \o received.Text>>]>>
            ELSE <<>>)
        \o DefaultStyles

DefaultStateMachineConfig ==
    [InitialState      |-> "Running",
     GracefulState     |-> "Graceful",
     ForcedState       |-> "ForceExit",
     InitialToGraceful |-> "Interrupt",
     GracefulToForced  |-> "Force",
     GracefulToFinal   |-> "Complete"]

\* StateMachineDiagram(state, nil): the default configuration, which has no
\* note generator.
StateMachineDiagram(state) ==
    LET config == DefaultStateMachineConfig
        forceExitThreshold == getIntField(state, "ForceExitThreshold")
        stopping == getBoolField(state, "Stopping")
        stopped  == getBoolField(state, "Stopped")
    IN  <<[kind |-> "header", text |-> "stateDiagram-v2"],
          [kind |-> "transition", from |-> "[*]", to |-> config.InitialState, label |-> ""],
          [kind |-> "transition", from |-> config.InitialState,
           to |-> config.GracefulState, label |-> config.InitialToGraceful]>>
        \o (IF forceExitThreshold > 0
            THEN <<[kind |-> "transition", from |-> config.GracefulState,
                    to |-> config.ForcedState,
                    label |-> config.GracefulToForced \o " x" \o ToString(forceExitThreshold)],
                   [kind |-> "transition", from |-> config.ForcedState, to |-> "[*]",
                    label |-> "Exit"]>>
            ELSE <<>>)
        \o <<[kind |-> "transition", from |-> config.GracefulState, to |-> "[*]",
              label |-> config.GracefulToFinal]>>
        \o (IF stopped THEN <<[kind |-> "class", id |-> "[*]", class |-> "stopped"]>>
            ELSE IF stopping
                 THEN <<[kind |-> "class", id |-> config.GracefulState, class |-> "stopping"]>>
            ELSE <<[kind |-> "class", id |-> config.InitialState, class |-> "running"]>>)
        \o DefaultStyles

\* The Reason strings given to the renderers: none, a reason, and the text
\* "None".
Reasons == {"", "Shutdown", "None"}

\* LegacyControllerState values.
ControllerStates ==
    [Enabled : BOOLEAN, Stopping : BOOLEAN, Stopped : BOOLEAN, Reason : Reasons]

\* ProcessState values, and a tree with one child.
ProcessStates ==
    {[Name |-> "test", Status |-> "Running"],
     [Name |-> "test", Status |-> ""],
     [Name |-> "root", Status |-> "Running", Metadata |-> [type |-> "supervisor"],
      Children |-> <<[Name |-> "w", Status |-> "Stopped", PID |-> 7]>>]}

\* What the Received field may hold: nothing, a nil pointer, a pointer, a
\* nil map, a signal value.
ReceivedValues ==
    {NilValue,
     [Kind |-> "Ptr", IsNil |-> TRUE, Text |-> "<nil>"],
     [Kind |-> "Ptr", IsNil |-> FALSE, Text |-> "0xc000012345"],
     [Kind |-> "Map", IsNil |-> TRUE, Text |-> "map[]"],
     [Kind |-> "Int", IsNil |-> FALSE, Text |-> "terminated"]}

\* MockSignalState values.
SignalStates ==
    [Enabled : {TRUE}, Received : ReceivedValues, ForceExitThreshold : {0, 1, 2},
     SignalCount : {0}, Stopping : BOOLEAN, Stopped : BOOLEAN, Reason : {""},
     HookTimeout : {[Kind |-> "Int64", IsNil |-> FALSE, Text |-> "5s"]}]

\* The arguments of a renderer call.
DiagramInputs ==
    {[type |-> "topology", primary |-> p, secondary |-> s] :
        p \in ControllerStates, s \in ProcessStates}
    \cup {[type |-> "signal", sig |-> g] : g \in SignalStates}

CallComponentDiagram ==
    /\ diagram.pc = "input"
    /\ diagram.in.type = "topology"
    /\ diagram' = [diagram EXCEPT !.pc = "rendered", !.fn = "ComponentDiagram",
                       !.lines = ComponentDiagram(diagram.in.primary, diagram.in.secondary)]
    /\ UNCHANGED <<typeCalls, mode, watchers, ctxDone, next, aggPc, wg, cpc, watchCalls,
                   src, ppc, pheld, wch, wchClosed, wpc, held, label, out, closeCount,
                   consumer, nread, emitted, emitLog, sendLog, dropped, panicked,
                   cancelCount>>

CallSignalStateMachine ==
    /\ diagram.pc = "input"
    /\ diagram.in.type = "signal"
    /\ diagram' = [diagram EXCEPT !.pc = "rendered", !.fn = "SignalStateMachine",
                       !.lines = SignalStateMachine(diagram.in.sig)]
    /\ UNCHANGED <<typeCalls, mode, watchers, ctxDone, next, aggPc, wg, cpc, watchCalls,
                   src, ppc, pheld, wch, wchClosed, wpc, held, label, out, closeCount,
                   consumer, nread, emitted, emitLog, sendLog, dropped, panicked,
                   cancelCount>>

CallStateMachineDiagram ==
    /\ diagram.pc = "input"
    /\ diagram.in.type = "signal"
    /\ diagram' = [diagram EXCEPT !.pc = "rendered", !.fn = "StateMachineDiagram",
                       !.lines = StateMachineDiagram(diagram.in.sig)]
    /\ UNCHANGED <<typeCalls, mode, watchers, ctxDone, next, aggPc, wg, cpc, watchCalls,
                   src, ppc, pheld, wch, wchClosed, wpc, held, label, out, closeCount,
                   consumer, nread, emitted, emitLog, sendLog, dropped, panicked,
                   cancelCount>>

\* A renderer is about to be called with some input; no aggregator runs.
DiagramInit ==
    /\ mode = "diagram"
    /\ watchers = <<>>
    /\ ctxDone = FALSE
    /\ next = 1
    /\ aggPc = "loop"
    /\ wg = 0
    /\ cpc = "none"
    /\ watchCalls = <<>>
    /\ src = <<>>
    /\ ppc = <<>>
    /\ pheld = <<>>
    /\ wch = <<>>
    /\ wchClosed = <<>>
    /\ wpc = <<>>
    /\ held = <<>>
    /\ label = <<>>
    /\ out = <<>>
    /\ closeCount = 0
    /\ consumer = "reading"
    /\ nread = 0
    /\ emitted = <<>>
    /\ emitLog = <<>>
    /\ sendLog = <<>>
    /\ dropped = <<>>
    /\ panicked = FALSE
    /\ cancelCount = 0
    /\ typeCalls = <<>>
    /\ \E in \in DiagramInputs :
         diagram = [pc |-> "input", fn |-> "none", in |-> in, lines |-> <<>>]

DiagramNext ==
    \/ CallComponentDiagram
    \/ CallSignalStateMachine
    \/ CallStateMachineDiagram

\* The renderers are pure functions of their argument: one call per behaviour.
DiagramSpec == DiagramInit /\ [][DiagramNext]_vars

\* The class lines of the rendered diagram that name node `id`.
ClassLines(id) ==
    SelectSeq(diagram.lines, LAMBDA l : l.kind = "class" /\ l.id = id)

\* All class lines of the rendered diagram.
AllClassLines == SelectSeq(diagram.lines, LAMBDA l : l.kind = "class")

\* The rendered diagram is the result of `fn`.
Rendered(fn) == diagram.pc = "rendered" /\ diagram.fn = fn

----------------------------------------------------------------------------
(* Derived views used by the properties *)

\* The elements worker i has sent on out, in order.
SentBy(i) ==
    LET mine == SelectSeq(sendLog, LAMBDA e : e.w = i)
    IN  [k \in 1..Len(mine) |-> mine[k].v]

\* Snapshot s carries transition t: identity and time preserved, payload = new state.
Carries(s, t) ==
    /\ s.ComponentID = t.ComponentID
    /\ s.Timestamp = t.Timestamp
    /\ s.Payload = t.NewState

\* The first Len(sent) transitions of `emits` are carried, in order, by `sent`.
CarriedPrefix(sent, emits) ==
    /\ Len(sent) <= Len(emits)
    /\ \A k \in 1..Len(sent) : Carries(sent[k], emits[k])

\* Every transition producer i put on its stream is accounted for: on the
\* output, held by the worker, still queued in the stream, or abandoned.
Accounted(i) ==
    Len(SentBy(i)) + Len(held[i]) + Len(wch[i]) + Len(dropped[i]) = Len(emitLog[i])

Watched(i) == wpc[i] # "none"

\* Producers a claim calls incapable, by what the value is (not by what the
\* aggregator decides).
Incapable(kind) == kind \in {"nil", "plain", "watchOnly", "typeOnly", "emptyType"}

\* Worker i exists and is at `pc`.
WorkerAt(i, pc) == i \in Procs /\ wpc[i] = pc

HonoursContract == \A i \in Procs : ClosesOnCancel(watchers[i])

----------------------------------------------------------------------------
(* C1 *)

\* C1 as stated: every transition a producer emits on its Watch stream results
\* in exactly one snapshot on the output stream.  Once the output is closed
\* nothing more can arrive, so by then every emitted transition must be there.
C1_ExactlyOneSnapshot ==
    (mode = "watchers" /\ outClosed) =>
        \A i \in Procs :
            /\ Len(SentBy(i)) = Len(emitLog[i])
            /\ CarriedPrefix(SentBy(i), emitLog[i])

\* C1 amended: every transition a producer emits results in at most one
\* snapshot, the snapshots of one producer carry its transitions in emission
\* order with ComponentID and Timestamp preserved and Payload = NewState, and
\* while the cancellation token has not fired none is lost: each emitted
\* transition is on the output exactly once or still in flight (queued in the
\* stream or held by the worker blocked on the send).  Only the send select's
\* ctx.Done() branch abandons a snapshot.
C1_AtMostOnceExactlyOnceBeforeCancel ==
    mode = "watchers" =>
        \A i \in Procs :
            /\ CarriedPrefix(SentBy(i), emitLog[i])
            /\ Accounted(i)
            /\ Len(dropped[i]) <= 1
            /\ ~ctxDone => dropped[i] = <<>>
            /\ held[i] # <<>> =>
                 Carries(held[i][1], emitLog[i][Len(SentBy(i)) + Len(dropped[i]) + 1])

\* A mock producer has had two transitions delivered, the token not fired.
C1_Witness ==
    /\ mode = "watchers"
    /\ ~ctxDone
    /\ \E i \in Procs : watchers[i] = "mock" /\ Len(SentBy(i)) = 2 /\ nread = 2

----------------------------------------------------------------------------
(* C2 *)

\* C2: once the cancellation token has fired the output stream is eventually
\* closed, for any number of producers that close their stream on
\* cancellation, whether or not the consumer reads and whatever the fill
\* level of the output buffer.
C2_CancelEventuallyCloses ==
    (mode = "watchers" /\ ctxDone /\ HonoursContract) ~> outClosed

\* Cancelled with the output buffer full and never read; the output got closed.
C2_Witness ==
    /\ mode = "watchers"
    /\ ctxDone
    /\ outClosed
    /\ nread = 0
    /\ Len(out) = OutCap

----------------------------------------------------------------------------
(* C3 *)

\* C3: a worker of AggregateWatchers waiting to receive from its producer's
\* stream exits once the cancellation token has fired, whatever the producer
\* does with its stream.
C3_RecvRacesCancellation ==
    \A i \in 1..MaxProducers :
        (mode = "watchers" /\ ctxDone /\ WorkerAt(i, "recv")) ~> WorkerAt(i, "exit")

----------------------------------------------------------------------------
(* C4 *)

\* C4: after the cancellation token has fired no worker stays blocked on the
\* send to the output; a worker blocked on a full output buffer exits unless
\* the consumer makes room, so the caller may stop reading after cancelling.
C4_SendNeverBlocksPastCancel ==
    \A i \in 1..MaxProducers :
        /\ (ctxDone /\ WorkerAt(i, "send")) ~> ~WorkerAt(i, "send")
        /\ (ctxDone /\ WorkerAt(i, "send") /\ Len(out) = OutCap)
               ~> (WorkerAt(i, "exit") \/ Len(out) < OutCap)

\* A worker left the send select through ctx.Done() while the buffer was full
\* and the consumer had never read.
C4_Witness ==
    /\ ctxDone
    /\ Len(out) = OutCap
    /\ nread = 0
    /\ \E i \in Procs : wpc[i] = "exit" /\ dropped[i] # <<>>

----------------------------------------------------------------------------
(* C5 *)

\* C5: the output channel is closed exactly once, only after the aggregator
\* loop is over and every spawned worker has exited; where the output is
\* closed no worker is running, and no goroutine ever sends on (or closes
\* again) the closed channel.
C5_CloseAfterAllWorkers ==
    /\ closeCount <= 1
    /\ ~panicked
    /\ outClosed =>
         /\ aggPc = "returned"
         /\ wg = 0
         /\ \A i \in Procs : wpc[i] \in {"none", "exit"}

\* The output is closed after two workers ran and exited, one having sent.
C5_Witness ==
    /\ outClosed
    /\ Len(watchers) = 2
    /\ \A i \in Procs : wpc[i] = "exit"
    /\ sendLog # <<>>

----------------------------------------------------------------------------
(* C6 *)

\* The list mixes incapable producers with capable ones.
Mixed ==
    /\ mode = "watchers"
    /\ \E i \in Procs : Incapable(watchers[i])
    /\ \E i \in Procs : ~Incapable(watchers[i])

\* C6 as stated: with a mixed list every snapshot from the capable producers
\* is delivered, so once the output is closed each of their emitted
\* transitions is on the output, and the incapable ones contributed nothing.
C6_MixedDeliversEverySnapshot ==
    (Mixed /\ outClosed) =>
        \A i \in Procs :
            IF Incapable(watchers[i])
            THEN ~Watched(i) /\ SentBy(i) = <<>>
            ELSE Watched(i) /\ Len(SentBy(i)) = Len(emitLog[i])

\* C6 amended: with a mixed list, in any order, the incapable producers are
\* skipped (no Watch call, no worker, nothing on the output) and every capable
\* producer the loop has passed is watched exactly once, whatever precedes it;
\* the aggregator never fails; and a snapshot of a capable producer is lost
\* only by the send select's ctx.Done() branch: while the token has not fired
\* each emitted transition is on the output exactly once or still in flight.
C6_MixedSkipsIncapableKeepsCapable ==
    Mixed =>
        /\ ~panicked
        /\ aggPc = "returned" => next = Len(watchers) + 1
        /\ \A i \in Procs :
            /\ watchCalls[i] = (IF Watched(i) THEN 1 ELSE 0)
            /\ IF Incapable(watchers[i])
               THEN ~Watched(i) /\ SentBy(i) = <<>>
               ELSE /\ Watched(i) <=> i < next
                    /\ CarriedPrefix(SentBy(i), emitLog[i])
                    /\ Accounted(i)
                    /\ ~ctxDone => dropped[i] = <<>>

\* A nil producer came first; the capable one after it delivered a snapshot.
C6_Witness ==
    /\ mode = "watchers"
    /\ Len(watchers) = 2
    /\ watchers[1] = "nil"
    /\ watchers[2] = "simple"
    /\ ~ctxDone
    /\ Len(SentBy(2)) = 1
    /\ nread = 1

----------------------------------------------------------------------------
(* C7 *)

\* C7: called with an empty list, either aggregator returns a stream that
\* never yields a value and is eventually closed; no worker is ever counted in
\* the wait group, so the close does not wait for the cancellation token.
C7_EmptyListCloses ==
    /\ [](Len(watchers) = 0 =>
            /\ sendLog = <<>>
            /\ out = <<>>
            /\ nread = 0
            /\ wg = 0
            /\ ~panicked)
    /\ (Len(watchers) = 0) ~> outClosed

\* The consumer saw the close of an empty aggregation, the token not fired.
C7_Witness ==
    /\ Len(watchers) = 0
    /\ aggPc = "returned"
    /\ outClosed
    /\ consumer = "closed"
    /\ nread = 0
    /\ ~ctxDone

----------------------------------------------------------------------------
(* C8 *)

\* A non-empty list of AggregateWatchers with incapable producers only.
OnlyIncapable ==
    /\ mode = "watchers"
    /\ Len(watchers) >= 1
    /\ \A i \in Procs : Incapable(watchers[i])

\* C8: with only incapable producers AggregateWatchers does not fail, calls
\* no Watch, spawns no worker, delivers no snapshot, and its stream is
\* eventually closed without waiting for the cancellation token.
C8_OnlyIncapableCloses ==
    /\ [](OnlyIncapable =>
            /\ ~panicked
            /\ sendLog = <<>>
            /\ nread = 0
            /\ wg = 0
            /\ \A i \in Procs : ~Watched(i) /\ watchCalls[i] = 0)
    /\ OnlyIncapable ~> outClosed

\* AggregateWatchers(ctx, nil, struct{}{}) closed, as seen by the consumer,
\* the token not fired.
C8_Witness ==
    /\ mode = "watchers"
    /\ watchers = <<"nil", "plain">>
    /\ aggPc = "returned"
    /\ outClosed
    /\ consumer = "closed"
    /\ ~ctxDone

----------------------------------------------------------------------------
(* C9 *)

\* The output element s is the envelope of the emitted element t.
SameElement(s, t) == s.ComponentID = t.ComponentID /\ s.Timestamp = t.Timestamp

\* sent[a..] occurs within emits[b..] in the same relative order.
RECURSIVE InOrder(_, _, _, _)
InOrder(sent, a, emits, b) ==
    IF a > Len(sent) THEN TRUE
    ELSE IF b > Len(emits) THEN FALSE
    ELSE IF SameElement(sent[a], emits[b]) THEN InOrder(sent, a + 1, emits, b + 1)
    ELSE InOrder(sent, a, emits, b + 1)

\* C9: per-producer FIFO end to end, for both aggregators: the elements of one
\* producer that appear on the output appear there in the order the producer
\* emitted them (what its worker sent is an order-preserving subsequence of
\* what the producer emitted), under every interleaving, and the consumer
\* receives the elements in the order they were sent (the output buffer is
\* the unread suffix of what was sent).
C9_PerProducerFifo ==
    /\ \A i \in Procs : InOrder(SentBy(i), 1, emitLog[i], 1)
    /\ Len(out) = Len(sendLog) - nread
    /\ \A k \in 1..Len(out) : out[k] = sendLog[nread + k].v

\* One of two running producers has had two elements sent, one already read.
C9_Witness ==
    /\ Len(watchers) = 2
    /\ \A i \in Procs : Watched(i)
    /\ Len(SentBy(2)) = 2
    /\ nread = 1
    /\ Len(out) = 1

----------------------------------------------------------------------------
(* C10 *)

\* Two capable producers that, as in ExampleAggregateWatchers, keep their
\* stream open until the token fires, each of which was asked for exactly
\* one transition, the token firing only once the consumer has received two
\* snapshots.
TwoProducersOneEach ==
    /\ mode = "watchers"
    /\ Len(watchers) = 2
    /\ \A i \in Procs :
         ~Incapable(watchers[i]) /\ ~ClosesByItself(watchers[i]) /\ emitted[i] = 1
    /\ ctxDone => cancelCount >= 2

C10_OrderFirstSecond ==
    /\ TwoProducersOneEach
    /\ watchers = <<"simple", "simple">>
    /\ Len(sendLog) = 2
    /\ sendLog[1].w = 1
    /\ sendLog[2].w = 2
    /\ nread = 2
    /\ ctxDone
    /\ consumer = "closed"

----------------------------------------------------------------------------
(* C11 *)

\* C11: every snapshot sent by Snapshots carries the label given to
\* NewWatcherAdapter as its ComponentType, whatever the ComponentType field of
\* the received transition holds and whatever the wrapped watcher reports as
\* its own component type, if it reports one at all.
C11_AdapterTagsWithLabel ==
    mode = "adapter" =>
        /\ \A k \in 1..Len(sendLog) : sendLog[k].v.ComponentType = label[1]
        /\ \A k \in 1..Len(out) : out[k].ComponentType = label[1]

\* A watcher without ComponentType(), transitions tagged "service", wrapped
\* with the label "test-component": two snapshots were sent and one was read.
C11_Witness ==
    /\ mode = "adapter"
    /\ watchers[1] = "watchOnly"
    /\ label[1] = "test-component"
    /\ Len(sendLog) = 2
    /\ emitLog[1][1].ComponentType = "service"
    /\ nread = 1

----------------------------------------------------------------------------
(* C12 *)

\* C12: Snapshots emits exactly one snapshot for every transition it received
\* from the wrapped watcher and forwarded, with ComponentID and Timestamp
\* copied and Payload = NewState, in the order the transitions were received:
\* the snapshots sent are, one for one and in order, the first transitions of
\* the watcher's stream; every other transition of the stream is still queued
\* in it, held at the send, or was abandoned at the send after cancellation.
C12_AdapterOneSnapshotPerTransition ==
    mode = "adapter" =>
        /\ CarriedPrefix(SentBy(1), emitLog[1])
        /\ Accounted(1)
        /\ Len(dropped[1]) <= 1
        /\ ~ctxDone => dropped[1] = <<>>
        /\ held[1] # <<>> =>
             held[1][1] = emitLog[1][Len(SentBy(1)) + Len(dropped[1]) + 1]
        /\ Len(out) = Len(sendLog) - nread
        /\ \A k \in 1..Len(out) : out[k] = sendLog[nread + k].v

\* TestWatcherAdapter_Snapshots: a MockTypedWatcher wrapped, two transitions
\* sent, both snapshots read, the token not fired.
C12_Witness ==
    /\ mode = "adapter"
    /\ watchers[1] = "mock"
    /\ ~ctxDone
    /\ Len(emitLog[1]) = 2
    /\ Len(sendLog) = 2
    /\ nread = 2

----------------------------------------------------------------------------
(* C13 *)

\* C13: once the cancellation token has fired while the adapter's goroutine
\* waits for the next transition of the wrapped watcher's stream, the output
\* stream of Snapshots is eventually closed, whether or not the wrapped
\* watcher closes its stream.
C13_CancelClosesIdleAdapter ==
    (mode = "adapter" /\ ctxDone /\ WorkerAt(1, "recv")) ~> outClosed

----------------------------------------------------------------------------
(* C14 *)

\* C14: the channel of Snapshots is closed exactly once, by the forwarding
\* goroutine as the last thing it does: the close coincides with the
\* goroutine's exit, where the channel is closed the goroutine has exited,
\* and from then on nothing is sent on the channel (and no send or second
\* close ever hits the closed channel).
C14_AdapterClosesOnceAtExit ==
    /\ [](mode = "adapter" =>
            /\ closeCount <= 1
            /\ ~panicked
            /\ outClosed <=> wpc[1] = "exit")
    /\ [][mode = "adapter" =>
            /\ closeCount' # closeCount => wpc[1] # "exit" /\ wpc'[1] = "exit"
            /\ outClosed => sendLog' = sendLog /\ wpc'[1] = "exit"]_vars

\* The adapter sent a snapshot, left through the ctx.Done() case with another
\* one in hand, and the consumer saw the close.
C14_Witness ==
    /\ mode = "adapter"
    /\ outClosed
    /\ sendLog # <<>>
    /\ dropped[1] # <<>>
    /\ consumer = "closed"

----------------------------------------------------------------------------
(* C15 *)

\* Everything every producer emitted on its stream has been sent on the output.
AllForwarded == \A i \in Procs : Len(SentBy(i)) = Len(emitLog[i])

\* C15: AggregateEvents, as long as the context is not cancelled and with a
\* consumer that keeps reading: what each worker sent is, unchanged and in
\* order, the beginning of what its source emitted, with nothing abandoned
\* (exactly once); every emitted event is eventually sent; the output is
\* closed only when every source's stream is closed, every worker has exited
\* and every event was forwarded, and it is eventually closed once all the
\* streams are closed.
C15_EventsForwardedThenClosed ==
    /\ []((mode = "events" /\ ~ctxDone) =>
            /\ \A i \in Procs :
                 /\ Len(SentBy(i)) <= Len(emitLog[i])
                 /\ \A k \in 1..Len(SentBy(i)) : SentBy(i)[k] = emitLog[i][k]
                 /\ dropped[i] = <<>>
                 /\ Accounted(i)
            /\ outClosed =>
                 /\ AllForwarded
                 /\ \A i \in Procs : wchClosed[i] /\ wpc[i] = "exit")
    /\ mode = "events" => []<>(ctxDone \/ AllForwarded)
    /\ (mode = "events" /\ \A i \in Procs : wchClosed[i]) ~> outClosed

\* TestAggregateEvents_Multiple_Sources with sources that end their stream:
\* one event each, both forwarded and read, then the close, never cancelled.
C15_Witness ==
    /\ mode = "events"
    /\ watchers = <<"finiteEvents", "finiteEvents">>
    /\ ~ctxDone
    /\ Len(SentBy(1)) = 1
    /\ Len(SentBy(2)) = 1
    /\ nread = 2
    /\ consumer = "closed"

----------------------------------------------------------------------------
(* C16 *)

\* C16: after the context of AggregateEvents is cancelled the output event
\* channel is eventually closed (the sources close their Events streams on
\* cancellation).
C16_EventsCancelEventuallyCloses ==
    (mode = "events" /\ ctxDone) ~> outClosed

\* Two sources, cancelled, both workers gone, the consumer saw the close.
C16_Witness ==
    /\ mode = "events"
    /\ Len(watchers) = 2
    /\ ctxDone
    /\ \A i \in Procs : wpc[i] = "exit" /\ wchClosed[i]
    /\ outClosed
    /\ consumer = "closed"

----------------------------------------------------------------------------
(* C17 *)

\* A worker of one of the aggregators is at the send and the buffer is full.
BlockedOnSend(i) ==
    /\ mode \in {"watchers", "events"}
    /\ wpc[i] = "send"
    /\ Len(out) = OutCap

\* C17: while the cancellation token has not fired, a consumer that does not
\* read only makes the sends block: a worker at the send with the buffer full
\* can take no step and keeps its element, nothing a worker received is
\* abandoned or replaced (it is on the output or in the worker's hand, and
\* what is in its hand is the element it received), and nothing fails.
C17_BackPressureBlocksNeverDrops ==
    (mode \in {"watchers", "events"} /\ ~ctxDone) =>
        /\ ~panicked
        /\ \A i \in Procs :
             /\ dropped[i] = <<>>
             /\ Accounted(i)
             /\ held[i] # <<>> =>
                  /\ wpc[i] = "send"
                  /\ held[i][1] = Envelope(i, emitLog[i][Len(SentBy(i)) + 1])
             /\ BlockedOnSend(i) => held[i] # <<>> /\ ~ENABLED WorkerStep(i)

\* The consumer never read: the buffer is full, the worker holds the next
\* snapshot at the send, the token has not fired.
C17_Witness ==
    /\ mode = "watchers"
    /\ Len(watchers) = 1
    /\ ~ctxDone
    /\ nread = 0
    /\ BlockedOnSend(1)
    /\ Len(emitLog[1]) = OutCap + 1

----------------------------------------------------------------------------
(* C18 *)

----------------------------------------------------------------------------
(* C19 *)

\* C19: every worker spawned by one of the aggregators eventually terminates
\* once its producer's stream is closed or the cancellation token has fired.
C19_WorkersTerminate ==
    \A i \in 1..MaxProducers :
        (/\ mode \in {"watchers", "events"}
         /\ i \in Procs
         /\ wpc[i] \in {"start", "recv", "send"}
         /\ (ctxDone \/ wchClosed[i])) ~> WorkerAt(i, "exit")

----------------------------------------------------------------------------
(* C20 *)

\* The reference implementations of TypedWatcher.
ReferenceWatcher(kind) == kind \in {"mock", "simple"}

\* C20: the channel returned by Watch(ctx) of a reference producer is closed
\* after ctx is cancelled, whether the forwarding goroutine is idle or blocked
\* handing over a transition and whether or not anybody receives; it is
\* closed by the goroutine's return, and nothing is put on it afterwards.
C20_WatchChannelClosedOnCancel ==
    /\ \A i \in 1..MaxProducers :
         (/\ i \in Procs
          /\ ReferenceWatcher(watchers[i])
          /\ ppc[i] \in {"idle", "holding"}
          /\ ctxDone) ~> (i \in Procs /\ wchClosed[i] /\ ppc[i] = "done")
    /\ [][\A i \in Procs :
            (ReferenceWatcher(watchers[i]) /\ wchClosed[i]) =>
                /\ wchClosed'[i]
                /\ emitLog'[i] = emitLog[i]
                /\ Len(wch'[i]) <= Len(wch[i])]_vars

\* A simpleWatcher's goroutine took a transition that nobody received (the
\* worker had left), and closed its channel on cancellation.
C20_Witness ==
    /\ mode = "watchers"
    /\ watchers = <<"simple">>
    /\ ctxDone
    /\ wchClosed[1]
    /\ ppc[1] = "done"
    /\ wpc[1] = "exit"
    /\ dropped[1] # <<>>
    /\ emitted[1] > Len(emitLog[1]) + Len(src[1])

----------------------------------------------------------------------------
(* C21 *)

\* C21: every snapshot of AggregateWatchers carries as ComponentType what the
\* ComponentType() of the producer it comes from returned when the loop
\* inspected that producer (the label handed to that producer's worker), not
\* the ComponentType field of the transition and not another producer's label.
C21_SnapshotTaggedWithProducerType ==
    mode = "watchers" =>
        \A k \in 1..Len(sendLog) :
            /\ sendLog[k].v.ComponentType = ComponentTypeOf(watchers[sendLog[k].w])
            /\ sendLog[k].v.ComponentType = label[sendLog[k].w]
            /\ \E e \in 1..Len(emitLog[sendLog[k].w]) :
                   Carries(sendLog[k].v, emitLog[sendLog[k].w][e])

\* A MockTypedWatcher whose transition carries an empty ComponentType and a
\* simpleWatcher: one snapshot each was sent, tagged "worker" and "service".
C21_Witness ==
    /\ mode = "watchers"
    /\ watchers = <<"mock", "simple">>
    /\ Len(SentBy(1)) = 1
    /\ Len(SentBy(2)) = 1
    /\ emitLog[1][1].ComponentType = ""
    /\ SentBy(1)[1].ComponentType = "worker"
    /\ SentBy(2)[1].ComponentType = "service"

----------------------------------------------------------------------------
(* C24 *)

\* C24: NewWatcherAdapter does not call Watch; Snapshots(ctx) calls
\* Watch(ctx) on the wrapped watcher exactly once, from its goroutine, with
\* the context it was given (the one whose cancellation the watcher obeys):
\* no call before the goroutine has started, one from then on.
C24_AdapterWatchesOnce ==
    mode = "adapter" =>
        /\ watchCalls[1] = (IF wpc[1] \in {"none", "astart"} THEN 0 ELSE 1)
        /\ aggPc \in {"loop", "constructed"} => watchCalls[1] = 0 /\ ppc[1] = "none"

\* The adapter ran to its end: two snapshots sent, cancelled, output closed,
\* and Watch was called once.
C24_Witness ==
    /\ mode = "adapter"
    /\ watchCalls[1] = 1
    /\ Len(sendLog) = 2
    /\ ctxDone
    /\ outClosed

----------------------------------------------------------------------------
(* C27 *)

\* The producer is nil or has no ComponentType method.
Unlabelled(kind) == kind = "nil" \/ ~HasComponentType(kind)

\* C27: AggregateWatchers never calls Watch on, and never spawns a worker
\* for, a producer that is nil or has no ComponentType(), whether or not it
\* has a Watch method; a Watch call is only ever made on a producer whose
\* type label has been obtained.
C27_UnlabelledNeverWatched ==
    mode = "watchers" =>
        \A i \in Procs :
            /\ Unlabelled(watchers[i]) =>
                 /\ watchCalls[i] = 0
                 /\ typeCalls[i] = 0
                 /\ wpc[i] = "none"
                 /\ ppc[i] = "none"
                 /\ SentBy(i) = <<>>
            /\ watchCalls[i] > 0 => typeCalls[i] = 1 /\ label[i] # ""

\* A value with Watch but without ComponentType, to which a change was sent,
\* was passed with nil: the loop is over, the output closed, nothing watched.
C27_Witness ==
    /\ mode = "watchers"
    /\ watchers = <<"watchOnly", "nil">>
    /\ emitted[1] = 1
    /\ outClosed
    /\ consumer = "closed"
    /\ ~ctxDone

----------------------------------------------------------------------------
(* C28 *)

\* C28: a producer with ComponentType() and Watch(ctx) whose ComponentType()
\* returns "" is skipped by AggregateWatchers like an incapable one: its
\* type is queried, its Watch is never called, it gets no worker, and none
\* of its transitions reaches the output.
C28_EmptyTypeSkipped ==
    mode = "watchers" =>
        \A i \in Procs :
            watchers[i] = "emptyType" =>
                /\ typeCalls[i] = (IF i < next THEN 1 ELSE 0)
                /\ watchCalls[i] = 0
                /\ wpc[i] = "none"
                /\ ppc[i] = "none"
                /\ emitLog[i] = <<>>
                /\ \A k \in 1..Len(sendLog) : sendLog[k].w # i

\* An empty-typed producer, to which a change was sent, precedes a
\* MockTypedWatcher: only the latter's snapshot was delivered.
C28_Witness ==
    /\ mode = "watchers"
    /\ watchers = <<"emptyType", "mock">>
    /\ aggPc = "returned"
    /\ emitted[1] = 1
    /\ Len(sendLog) = 1
    /\ sendLog[1].w = 2
    /\ nread = 1

----------------------------------------------------------------------------
(* C29 *)

\* C29: AggregateWatchers calls Watch(ctx) from its loop: on each surviving
\* producer exactly once, in argument order, all of them before the call
\* returns and none afterwards; ComponentType() is queried once on every
\* producer that has the method, also before the return.
C29_WatchCalledOnceInOrderBeforeReturn ==
    /\ [](mode = "watchers" =>
            /\ \A i \in Procs :
                 /\ watchCalls[i] = (IF Capable(watchers[i]) /\ i < next THEN 1 ELSE 0)
                 /\ typeCalls[i] = (IF i < next THEN ComponentTypeQueries(watchers[i]) ELSE 0)
            /\ aggPc = "returned" => next = Len(watchers) + 1)
    /\ [][mode = "watchers" =>
            /\ aggPc = "returned" => watchCalls' = watchCalls /\ typeCalls' = typeCalls
            /\ \A i \in Procs :
                 watchCalls'[i] # watchCalls[i] =>
                     /\ i = next
                     /\ \A j \in Procs : j > i => watchCalls[j] = 0]_vars

\* C29 as stated: the same, with ComponentType() queried exactly once on
\* every producer of the argument list, nil and method-less ones included.
C29_TypeQueriedOncePerProducer ==
    /\ [](mode = "watchers" =>
            /\ \A i \in Procs :
                 /\ watchCalls[i] = (IF Capable(watchers[i]) /\ i < next THEN 1 ELSE 0)
                 /\ typeCalls[i] = (IF i < next THEN 1 ELSE 0)
            /\ aggPc = "returned" => next = Len(watchers) + 1)
    /\ [][mode = "watchers" =>
            /\ aggPc = "returned" => watchCalls' = watchCalls /\ typeCalls' = typeCalls
            /\ \A i \in Procs :
                 watchCalls'[i] # watchCalls[i] =>
                     /\ i = next
                     /\ \A j \in Procs : j > i => watchCalls[j] = 0]_vars

\* A nil producer and a MockTypedWatcher were inspected, the latter
\* subscribed, by the time the call returned; a snapshot has since been
\* delivered.
C29_Witness ==
    /\ mode = "watchers"
    /\ watchers = <<"nil", "mock">>
    /\ aggPc = "returned"
    /\ watchCalls = <<0, 1>>
    /\ typeCalls = <<0, 1>>
    /\ nread = 1

----------------------------------------------------------------------------
(* C23 *)

\* Every surviving producer's stream is closed.
AllStreamsClosed == \A i \in Procs : Capable(watchers[i]) => wchClosed[i]

\* C23: AggregateWatchers, never cancelled, with a consumer that keeps
\* reading: once the stream of every surviving producer is closed the output
\* is eventually closed and the consumer eventually sees the close; when it
\* sees it, every transition the producers put on their streams has been
\* sent and read, none abandoned; and as long as a surviving producer's
\* stream is open and the token has not fired the output is not closed.
C23_NormalShutdownLosesNothing ==
    /\ []((mode = "watchers" /\ ~ctxDone) =>
            /\ (\E i \in Procs : Capable(watchers[i]) /\ ~wchClosed[i]) => ~outClosed
            /\ \A i \in Procs : dropped[i] = <<>> /\ CarriedPrefix(SentBy(i), emitLog[i])
            /\ consumer = "closed" =>
                 /\ AllForwarded
                 /\ out = <<>>
                 /\ nread = Len(sendLog))
    /\ (mode = "watchers" /\ AllStreamsClosed) ~> outClosed
    /\ (mode = "watchers" /\ AllStreamsClosed) ~> (ctxDone \/ consumer = "closed")

\* Two producers that end their streams by themselves after one transition
\* each: both were read, then the close was seen, and nobody cancelled.
C23_Witness ==
    /\ mode = "watchers"
    /\ watchers = <<"finite", "finite">>
    /\ ~ctxDone
    /\ Len(emitLog[1]) = 1
    /\ Len(emitLog[2]) = 1
    /\ nread = 2
    /\ consumer = "closed"

----------------------------------------------------------------------------
(* C25 *)

\* What the output carries for element t of producer i's stream.
EnvelopeOf(i, t) ==
    CASE mode = "watchers" -> MakeSnapshot(label[i], t)
      [] mode = "adapter"  -> AdapterSnapshot(label[i], t)
      [] OTHER             -> t

\* C25: every value ever put on the output of AggregateWatchers,
\* AggregateEvents or Snapshots is the envelope of an element its producer
\* put on its stream, and the output holds exactly the sent values not yet
\* read; a value is added only by a worker in its send case, with the
\* element it holds: a worker leaving on a closed stream, the firing of the
\* token, an abandoned send and a skipped producer add nothing.
C25_OnlyEnvelopesOfEmittedElements ==
    /\ [](/\ \A k \in 1..Len(sendLog) :
               \E e \in 1..Len(emitLog[sendLog[k].w]) :
                   sendLog[k].v = EnvelopeOf(sendLog[k].w, emitLog[sendLog[k].w][e])
          /\ Len(out) = Len(sendLog) - nread
          /\ \A k \in 1..Len(out) : out[k] = sendLog[nread + k].v)
    /\ [][/\ sendLog' # sendLog =>
              \E i \in Procs :
                  /\ wpc[i] = "send"
                  /\ wpc'[i] = "recv"
                  /\ held[i] # <<>>
                  /\ sendLog' = Append(sendLog, [w |-> i, v |-> sendLog'[Len(sendLog')].v])
                  /\ out' = Append(out, sendLog'[Len(sendLog')].v)
          /\ (\E i \in Procs : wpc[i] # "exit" /\ wpc'[i] = "exit") =>
                  sendLog' = sendLog /\ out' = out
          /\ ctxDone' # ctxDone => sendLog' = sendLog /\ out' = out
          /\ (next' # next /\ wpc'[next] = "none") =>
                  sendLog' = sendLog /\ out' = out]_vars

\* A skipped producer and one that ended its stream after one transition:
\* the worker left on the close, the token fired afterwards, and the output
\* carried that one snapshot and then the close.
C25_Witness ==
    /\ mode = "watchers"
    /\ watchers = <<"plain", "finite">>
    /\ Len(emitLog[2]) = 1
    /\ wpc[2] = "exit"
    /\ dropped[2] = <<>>
    /\ ctxDone
    /\ Len(sendLog) = 1
    /\ nread = 1
    /\ consumer = "closed"

----------------------------------------------------------------------------
(* C26 *)

\* The clock readings of `seq` increase strictly: no element occurs twice.
Increasing(seq) == \A k \in 1..(Len(seq) - 1) : seq[k].Timestamp < seq[k + 1].Timestamp

\* C26: in the three forwarders no element of a producer is sent twice: the
\* elements a worker has sent are distinct elements of its producer's
\* stream in stream order, the one it abandoned on cancellation (at most
\* one) comes after all it sent, and sent, abandoned, held and queued
\* elements add up to what the producer put on its stream.
C26_AtMostOnce ==
    \A i \in Procs :
        /\ Increasing(SentBy(i))
        /\ Len(dropped[i]) <= 1
        /\ dropped[i] # <<>> =>
              /\ ctxDone
              /\ \A k \in 1..Len(SentBy(i)) :
                    SentBy(i)[k].Timestamp < dropped[i][1].Timestamp
        /\ Len(SentBy(i)) + Len(dropped[i]) <= Len(emitLog[i])
        /\ Accounted(i)

\* AggregateEvents on a MockEventSource, cancelled with the second event in
\* the worker's hands: the first was delivered once, the second abandoned.
C26_Witness ==
    /\ mode = "events"
    /\ watchers = <<"mockEvents">>
    /\ ctxDone
    /\ Len(SentBy(1)) = 1
    /\ Len(dropped[1]) = 1
    /\ nread = 1

----------------------------------------------------------------------------
(* C22 *)

\* The node line of the primary component.
PrimaryNode ==
    SelectSeq(diagram.lines, LAMBDA l : l.kind = "node" /\ l.id = "primary")

\* The label of node line `n` has a Reason segment.
HasReasonLine(n) == \E k \in 1..Len(n.label) : n.label[k] = "Reason: " \o diagram.in.primary.Reason

\* C22: ComponentDiagram with the default configuration renders the primary
\* node with mode and class by the priority Enabled false (Disabled,
\* stopped), Stopped (Stopped, stopped), Stopping (Stopping, pending),
\* otherwise (Running, running); exactly one class line names the primary
\* node; the label has a Reason line iff Reason is non-empty.
C22_PrimaryModeClassReason ==
    Rendered("ComponentDiagram") =>
        LET p == diagram.in.primary
            expected ==
                IF ~p.Enabled THEN [mode |-> "Mode: Disabled", class |-> "stopped"]
                ELSE IF p.Stopped THEN [mode |-> "Mode: Stopped", class |-> "stopped"]
                ELSE IF p.Stopping THEN [mode |-> "Mode: Stopping", class |-> "pending"]
                ELSE [mode |-> "Mode: Running", class |-> "running"]
        IN  /\ Len(PrimaryNode) = 1
            /\ PrimaryNode[1].label[2] = expected.mode
            /\ Len(ClassLines("primary")) = 1
            /\ ClassLines("primary")[1].class = expected.class
            /\ HasReasonLine(PrimaryNode[1]) <=> p.Reason # ""

----------------------------------------------------------------------------
(* C30 *)

\* C30: SignalStateMachine emits exactly one class line for every input:
\* `class [*] stopped` if Stopped, else `class Graceful stopping` if
\* Stopping, else `class Running running`, whatever Received holds.
C30_ExactlyOneClassLine ==
    Rendered("SignalStateMachine") =>
        LET g == diagram.in.sig
            expected ==
                IF g.Stopped THEN [kind |-> "class", id |-> "[*]", class |-> "stopped"]
                ELSE IF g.Stopping
                     THEN [kind |-> "class", id |-> "Graceful", class |-> "stopping"]
                ELSE [kind |-> "class", id |-> "Running", class |-> "running"]
        IN  AllClassLines = <<expected>>

====
